---- MODULE Spec2Model ----
(***************************************************************************)
(* Model of the cf-benchmark API: the scoring functions of scoring.ts      *)
(* (validator, comparator, beaten count, merged rank, points) and the     *)
(* request handlers of server.ts over the tables of the Prisma schema.    *)
(*                                                                         *)
(* Numbers.  Every number the program handles here is an integer column   *)
(* or a difference of two of them; loadKg (DOUBLE PRECISION) is drawn     *)
(* from whole numbers, for which IEEE subtraction is exact.  A missing    *)
(* value is one of the two JavaScript values null and undefined, which    *)
(* the code tells apart (typeof, ??, ===, Prisma's update), so the model  *)
(* keeps both.  TLC's integers are 32 bits wide, so the sentinel          *)
(* Number.MAX_SAFE_INTEGER (2^53 - 1) is represented by 2^31 - 1: like    *)
(* the original it is larger than every INTEGER column value.             *)
(***************************************************************************)
EXTENDS Integers, Sequences, FiniteSets, TLC

(* ------------------------------ bounds --------------------------------- *)

\* timeSeconds, reps and loadKg are drawn from 0..MaxVal
MaxVal == 1

\* the API receives at most MaxRequests requests
MaxRequests == 2

\* benchmarkScores holds at most MaxBench entries
MaxBench == 2

(* ------------------------- JavaScript values --------------------------- *)

NULL == -1

UNDEFINED == -2

MAX_SAFE_INTEGER == 2147483647

\* NaN, the result of arithmetic on undefined; outside every difference
NaN == (0 - MAX_SAFE_INTEGER) - 1

\* typeof v === "number"
IsNumber(v) == v # NULL /\ v # UNDEFINED

\* v ?? d
Coalesce(v, d) == IF v = NULL \/ v = UNDEFINED THEN d ELSE v

\* ToNumber, applied by the binary minus: null is 0, undefined is NaN
ToNumber(v) == IF v = NULL THEN 0 ELSE IF v = UNDEFINED THEN NaN ELSE v

\* x - y of JavaScript
Minus(x, y) ==
  IF ToNumber(x) = NaN \/ ToNumber(y) = NaN THEN NaN
  ELSE ToNumber(x) - ToNumber(y)

\* r < 0 of JavaScript (false for NaN)
IsNegative(r) == r # NaN /\ r < 0

(* ------------------------------ scores --------------------------------- *)

ScoreTypes == {"TIME", "REPS", "LOAD", "TIME_REPS"}

\* a column value as Prisma returns it: a number or null
RowValues(max) == {NULL} \cup (0..max)

\* a request field as zod returns it: a number or undefined
BodyValues(min, max) == {UNDEFINED} \cup (min..max)

\* the comparator never reads tiebreakSecs: one value beside the missing one
TiebreakSecs == {0}

\* NormalizedScore, with the fields of a table row
Scores ==
  [timeSeconds : RowValues(MaxVal), reps : RowValues(MaxVal),
   loadKg : RowValues(MaxVal), tiebreakSecs : {NULL} \cup TiebreakSecs]

\* the score built from a parsed request body (LogResultSchema)
BodyScores ==
  [timeSeconds : BodyValues(1, MaxVal), reps : BodyValues(0, MaxVal),
   loadKg : BodyValues(1, MaxVal),
   tiebreakSecs : {UNDEFINED} \cup TiebreakSecs]

normalize(s) ==
  [timeSeconds |-> Coalesce(s.timeSeconds, NULL),
   reps |-> Coalesce(s.reps, NULL),
   loadKg |-> Coalesce(s.loadKg, NULL),
   tiebreakSecs |-> Coalesce(s.tiebreakSecs, NULL)]

\* mutant: TIME_REPS also requires timeSeconds
assertScoreMatchesType_TimeRepsNeedsTime(st, s) ==
  LET hasTime == IsNumber(s.timeSeconds)
      hasReps == IsNumber(s.reps)
      hasLoad == IsNumber(s.loadKg)
  IN CASE st = "TIME" -> IF ~hasTime THEN "TIME krever timeSeconds" ELSE "ok"
       [] st = "REPS" -> IF ~hasReps THEN "REPS krever reps" ELSE "ok"
       [] st = "LOAD" -> IF ~hasLoad THEN "LOAD krever loadKg" ELSE "ok"
       [] st = "TIME_REPS" ->
            IF ~hasReps \/ ~hasTime THEN "TIME_REPS krever reps" ELSE "ok"

\* "ok" when the function returns, the thrown message otherwise
assertScoreMatchesType(st, s) ==
  LET hasTime == IsNumber(s.timeSeconds)
      hasReps == IsNumber(s.reps)
      hasLoad == IsNumber(s.loadKg)
  IN CASE st = "TIME" -> IF ~hasTime THEN "TIME krever timeSeconds" ELSE "ok"
       [] st = "REPS" -> IF ~hasReps THEN "REPS krever reps" ELSE "ok"
       [] st = "LOAD" -> IF ~hasLoad THEN "LOAD krever loadKg" ELSE "ok"
       [] st = "TIME_REPS" -> IF ~hasReps THEN "TIME_REPS krever reps" ELSE "ok"
       \* the switch has no default branch: the function returns
       [] OTHER -> "ok"

\* mutant: the sentinel is applied to the left time only
compareScores_OneSidedSentinel(st, x, y) ==
  LET na == normalize(x)
      nb == normalize(y)
  IN CASE st = "TIME" -> Minus(na.timeSeconds, nb.timeSeconds)
       [] st = "REPS" -> Minus(nb.reps, na.reps)
       [] st = "LOAD" -> Minus(nb.loadKg, na.loadKg)
       [] st = "TIME_REPS" ->
            LET repsDiff == Minus(nb.reps, na.reps)
                ta == Coalesce(na.timeSeconds, MAX_SAFE_INTEGER)
                tb == Coalesce(nb.timeSeconds, 0)
            IN IF repsDiff # 0 THEN repsDiff ELSE Minus(ta, tb)

\* mutant: a missing time makes the tie-break a tie instead of a loss
compareScores_SkipAbsentTime(st, x, y) ==
  LET na == normalize(x)
      nb == normalize(y)
  IN CASE st = "TIME" -> Minus(na.timeSeconds, nb.timeSeconds)
       [] st = "REPS" -> Minus(nb.reps, na.reps)
       [] st = "LOAD" -> Minus(nb.loadKg, na.loadKg)
       [] st = "TIME_REPS" ->
            LET repsDiff == Minus(nb.reps, na.reps)
            IN IF repsDiff # 0 THEN repsDiff
               ELSE IF na.timeSeconds = NULL \/ nb.timeSeconds = NULL THEN 0
               ELSE Minus(na.timeSeconds, nb.timeSeconds)

\* mutant: || instead of ??, so a time of 0 counts as missing
compareScores_FalsyTime(st, x, y) ==
  LET na == normalize(x)
      nb == normalize(y)
  IN CASE st = "TIME" -> Minus(na.timeSeconds, nb.timeSeconds)
       [] st = "REPS" -> Minus(nb.reps, na.reps)
       [] st = "LOAD" -> Minus(nb.loadKg, na.loadKg)
       [] st = "TIME_REPS" ->
            LET repsDiff == Minus(nb.reps, na.reps)
                ta == IF na.timeSeconds \in {NULL, 0} THEN MAX_SAFE_INTEGER
                      ELSE na.timeSeconds
                tb == IF nb.timeSeconds \in {NULL, 0} THEN MAX_SAFE_INTEGER
                      ELSE nb.timeSeconds
            IN IF repsDiff # 0 THEN repsDiff ELSE Minus(ta, tb)

\* mutant: REPS ordered ascending
compareScores_RepsAscending(st, x, y) ==
  LET na == normalize(x)
      nb == normalize(y)
  IN CASE st = "TIME" -> Minus(na.timeSeconds, nb.timeSeconds)
       [] st = "REPS" -> Minus(na.reps, nb.reps)
       [] st = "LOAD" -> Minus(nb.loadKg, na.loadKg)
       [] st = "TIME_REPS" ->
            LET repsDiff == Minus(nb.reps, na.reps)
                ta == Coalesce(na.timeSeconds, MAX_SAFE_INTEGER)
                tb == Coalesce(nb.timeSeconds, MAX_SAFE_INTEGER)
            IN IF repsDiff # 0 THEN repsDiff ELSE Minus(ta, tb)

\* mutant: equal reps and equal times are told apart by tiebreakSecs
compareScores_TiebreakSecs(st, x, y) ==
  LET na == normalize(x)
      nb == normalize(y)
  IN CASE st = "TIME" -> Minus(na.timeSeconds, nb.timeSeconds)
       [] st = "REPS" -> Minus(nb.reps, na.reps)
       [] st = "LOAD" -> Minus(nb.loadKg, na.loadKg)
       [] st = "TIME_REPS" ->
            LET repsDiff == Minus(nb.reps, na.reps)
                ta == Coalesce(na.timeSeconds, MAX_SAFE_INTEGER)
                tb == Coalesce(nb.timeSeconds, MAX_SAFE_INTEGER)
            IN IF repsDiff # 0 THEN repsDiff
               ELSE IF Minus(ta, tb) # 0 THEN Minus(ta, tb)
               ELSE Minus(Coalesce(na.tiebreakSecs, MAX_SAFE_INTEGER),
                          Coalesce(nb.tiebreakSecs, MAX_SAFE_INTEGER))

compareScores(st, x, y) ==
  LET na == normalize(x)
      nb == normalize(y)
  IN CASE st = "TIME" -> Minus(na.timeSeconds, nb.timeSeconds)
       [] st = "REPS" -> Minus(nb.reps, na.reps)
       [] st = "LOAD" -> Minus(nb.loadKg, na.loadKg)
       [] st = "TIME_REPS" ->
            LET repsDiff == Minus(nb.reps, na.reps)
                ta == Coalesce(na.timeSeconds, MAX_SAFE_INTEGER)
                tb == Coalesce(nb.timeSeconds, MAX_SAFE_INTEGER)
            IN IF repsDiff # 0 THEN repsDiff ELSE Minus(ta, tb)
       \* the switch has no default branch: the function returns undefined
       [] OTHER -> UNDEFINED

(* ------------------------------ ranking -------------------------------- *)

\* the value of beaten after the first n rounds of the loop over bs
RECURSIVE BeatenAfter(_, _, _, _)
BeatenAfter(st, us, bs, n) ==
  IF n = 0 THEN 0
  ELSE LET beaten == BeatenAfter(st, us, bs, n - 1)
       IN IF IsNegative(compareScores(st, us, bs[n])) THEN beaten + 1
          ELSE beaten

\* mutant: the entries that beat the user are counted
computeBenchmarkBeatenCount_CountBetter(st, us, bs) ==
  Cardinality({i \in 1..Len(bs) : compareScores(st, us, bs[i]) > 0})

\* mutant: beaten starts at 1
computeBenchmarkBeatenCount_StartsAtOne(st, us, bs) ==
  1 + Cardinality({i \in 1..Len(bs) : compareScores(st, us, bs[i]) < 0})

\* mutant: an entry that ties with the user counts as beaten
computeBenchmarkBeatenCount_CountTies(st, us, bs) ==
  Cardinality({i \in 1..Len(bs) : compareScores(st, us, bs[i]) <= 0})

\* mutant: only the entries that tie with the user are counted
computeBenchmarkBeatenCount_OnlyTies(st, us, bs) ==
  Cardinality({i \in 1..Len(bs) : compareScores(st, us, bs[i]) = 0})

computeBenchmarkBeatenCount(st, us, bs) == BeatenAfter(st, us, bs, Len(bs))

isSameScore(x, y) ==
  /\ Coalesce(x.timeSeconds, NULL) = Coalesce(y.timeSeconds, NULL)
  /\ Coalesce(x.reps, NULL) = Coalesce(y.reps, NULL)
  /\ Coalesce(x.loadKg, NULL) = Coalesce(y.loadKg, NULL)
  /\ Coalesce(x.tiebreakSecs, NULL) = Coalesce(y.tiebreakSecs, NULL)

\* mutant: an entry goes in front of the entries it ties with
InsertIndex_BeforeTies(st, all, placed, i) ==
  LET p == Cardinality({k \in 1..Len(placed) :
                          compareScores(st, all[placed[k]], all[i]) < 0})
  IN SubSeq(placed, 1, p) \o <<i>> \o SubSeq(placed, p + 1, Len(placed))

\* one insertion of a stable sort: index i goes behind every index already
\* placed whose element does not compare greater (comparator result <= 0)
InsertIndex(st, all, placed, i) ==
  LET p == Cardinality({k \in 1..Len(placed) :
                          compareScores(st, all[placed[k]], all[i]) <= 0})
  IN SubSeq(placed, 1, p) \o <<i>> \o SubSeq(placed, p + 1, Len(placed))

\* Array.prototype.sort with the comparator compareScores: the indices of
\* all in sorted order.  The sort is stable (ECMAScript 2019): elements that
\* compare equal keep their order.
RECURSIVE SortedIndices(_, _, _)
SortedIndices(st, all, n) ==
  IF n = 0 THEN <<>>
  ELSE InsertIndex(st, all, SortedIndices(st, all, n - 1), n)

\* [...benchmarkScores, userScore] after all.sort(...)
SortedAll(st, us, bs) ==
  LET all == Append(bs, us)
      order == SortedIndices(st, all, Len(all))
  IN [k \in 1..Len(all) |-> all[order[k]]]

\* mutant: the index findIndex returns is passed on as it is (0-based)
computeRankAmongBenchmarkPlusUser_ZeroBased(st, us, bs) ==
  LET all == SortedAll(st, us, bs)
      found == {k \in 1..Len(all) : isSameScore(all[k], us)}
  IN IF found = {} THEN Len(all)
     ELSE (CHOOSE k \in found : \A m \in found : k <= m) - 1

\* mutant: the position is counted from the worst entry
computeRankAmongBenchmarkPlusUser_FromWorst(st, us, bs) ==
  LET all == SortedAll(st, us, bs)
      found == {k \in 1..Len(all) : isSameScore(all[k], us)}
  IN IF found = {} THEN Len(all)
     ELSE Len(all) + 1 - (CHOOSE k \in found : \A m \in found : k <= m)

computeRankAmongBenchmarkPlusUser(st, us, bs) ==
  LET all == SortedAll(st, us, bs)
      found == {k \in 1..Len(all) : isSameScore(all[k], us)}
  IN IF found = {} THEN Len(all)
     ELSE CHOOSE k \in found : \A m \in found : k <= m

\* mutant: the sort works on benchmarkScores itself, not on a copy
benchmarkScoresAfterRank_SortInPlace(st, us, bs) ==
  LET order == SortedIndices(st, bs, Len(bs))
  IN [k \in 1..Len(bs) |-> bs[order[k]]]

\* benchmarkScores as the caller finds it after the call: the spread
\* [...benchmarkScores, userScore] copies the entries, and the sort and
\* findIndex work on the copy
benchmarkScoresAfterRank(st, us, bs) == bs

\* mutant: the scale starts at 40
pointsFromRank_From40(r) ==
  IF r < 1 THEN 0 ELSE IF r > 40 THEN 0 ELSE 40 - r

pointsFromRank(r) ==
  IF r < 1 THEN 0 ELSE IF r > 40 THEN 0 ELSE 41 - r

(* ------------------------------- state --------------------------------- *)

\* the arguments and the result of a call of a scoring function
VARIABLES scoreType, a, b, userScore, benchmarkScores, rank, result

\* the tables User and UserResult, the requests in flight (one per handler
\* slot), the reply sent last, and the number of POST /results requests
\* received
VARIABLES users, userResults, req, last, issued

\* the tables BenchmarkAthlete and BenchmarkResult
VARIABLES benchmarkAthletes, benchmarkResults

callVars == <<scoreType, a, b, userScore, benchmarkScores, rank>>

benchVars == <<benchmarkAthletes, benchmarkResults>>

apiVars == <<users, userResults, req, last, issued, benchVars>>

vars == <<scoreType, a, b, userScore, benchmarkScores, rank, result,
          users, userResults, req, last, issued,
          benchmarkAthletes, benchmarkResults>>

NullScore ==
  [timeSeconds |-> NULL, reps |-> NULL, loadKg |-> NULL, tiebreakSecs |-> NULL]

NoResult == [op |-> "none", value |-> 0, text |-> ""]

(* ------------------------------ the API -------------------------------- *)

\* the requests handled at the same time
Handlers == {1, 2}

\* a userId or email the request does not carry
NONE == "none"

\* the workouts of the seed: seed-w1 is for time, seed-w2 for reps
Workouts ==
  {[id |-> "w1", scoreType |-> "TIME", season |-> 2026,
    competition |-> "OPEN", division |-> "MEN"],
   [id |-> "w2", scoreType |-> "REPS", season |-> 2026,
    competition |-> "OPEN", division |-> "MEN"]}

\* the benchmark athletes of the seed, two of them here, with their ranks
SeedAthletes == {[id |-> "a1", rank |-> 1], [id |-> "a2", rank |-> 2]}

\* the row the seed stores for an athlete and a workout: timeSeconds for
\* seed-w1, reps for seed-w2, the better value for the better rank
SeedBenchmarkRow(workoutId, athlete) ==
  [workoutId |-> workoutId, athleteId |-> athlete.id,
   timeSeconds |-> IF workoutId = "w1" THEN athlete.rank ELSE NULL,
   reps |-> IF workoutId = "w2" THEN 3 - athlete.rank ELSE NULL,
   loadKg |-> NULL, tiebreakSecs |-> NULL]

SeedBenchmarkResults ==
  {SeedBenchmarkRow(workoutId, athlete) :
     workoutId \in {"w1", "w2"}, athlete \in SeedAthletes}

\* the user of the seed (test@example.com)
SeedUsers == {[id |-> "u1", email |-> "a"]}

\* the id the database gives the user created for an email
NewUserId(email) == IF email = "a" THEN "u1" ELSE "u2"

\* raw.trim().normalize("NFC").toLocaleLowerCase("nb-NO")
normalizeIdentifier(raw) ==
  IF raw = "A" THEN "a" ELSE IF raw = " " THEN "" ELSE raw

\* the bodies the requests carry: LogResultSchema lets each of userId and
\* email be missing; w9 is the id of no workout, u9 the id of no user
PostScores ==
  [timeSeconds : {UNDEFINED, 1, 2}, reps : {UNDEFINED, 1},
   loadKg : {UNDEFINED}, tiebreakSecs : {UNDEFINED}]

PostBodies ==
  [userId : {NONE, "u1", "u9"}, email : {NONE, "A", "b"},
   workoutId : {"w1", "w2", "w9"}, score : PostScores]

NoBody ==
  [userId |-> NONE, email |-> NONE, workoutId |-> NONE,
   score |-> [timeSeconds |-> UNDEFINED, reps |-> UNDEFINED,
              loadKg |-> UNDEFINED, tiebreakSecs |-> UNDEFINED]]

\* no query: the slot holds no read
NoQuery == [route |-> ""]

Idle ==
  [pc |-> "idle", body |-> NoBody, user |-> NONE, existing |-> 0,
   query |-> NoQuery]

\* what the model keeps of a reply: the status, the error message, and for
\* a 200 whether the upsert updated a row
NoReply ==
  [status |-> 0, error |-> "", updated |-> FALSE, route |-> "", data |-> <<>>]

\* prisma.workout.findUnique({ where: { id } }): the set of rows found
FindWorkout(id) == {w \in Workouts : w.id = id}

\* prisma.user.findUnique by id, or by email
FindUserById(id) == {u \in users : u.id = id}

FindUserByEmail(email) == {u \in users : u.email = email}

\* the unique index User_email_key: an insert is refused when taken
UserEmailFree(email) == \A u \in users : u.email # email

\* mutant: the unique index UserResult_userId_workoutId_key is missing
UserResultKeyFree_NoIndex(userId, workoutId) == TRUE

\* the unique index UserResult_userId_workoutId_key
UserResultKeyFree(userId, workoutId) ==
  \A r \in userResults : ~(r.userId = userId /\ r.workoutId = workoutId)

\* the rows a findUnique on userId_workoutId reads
FindUserResult(userId, workoutId) ==
  {r \in userResults : r.userId = userId /\ r.workoutId = workoutId}

\* the row an INSERT of the create data stores: a field the data leaves
\* undefined takes the column's default, null
CreatedRow(id, userId, workoutId, score) ==
  [id |-> id, userId |-> userId, workoutId |-> workoutId,
   timeSeconds |-> Coalesce(score.timeSeconds, NULL),
   reps |-> Coalesce(score.reps, NULL),
   loadKg |-> Coalesce(score.loadKg, NULL),
   tiebreakSecs |-> Coalesce(score.tiebreakSecs, NULL)]

\* the row an UPDATE with `update: score` leaves: Prisma does not touch a
\* column whose value in the data is undefined
UpdatedRow(row, score) ==
  [row EXCEPT !.timeSeconds = IF score.timeSeconds = UNDEFINED THEN @
                               ELSE score.timeSeconds,
              !.reps = IF score.reps = UNDEFINED THEN @ ELSE score.reps,
              !.loadKg = IF score.loadKg = UNDEFINED THEN @ ELSE score.loadKg,
              !.tiebreakSecs = IF score.tiebreakSecs = UNDEFINED THEN @
                                ELSE score.tiebreakSecs]

\* the reply of a request, and the handler slot free again
Reply(h, r) ==
  /\ last' = r
  /\ req' = [req EXCEPT ![h] = Idle]

ErrorReply(status, error) ==
  [NoReply EXCEPT !.status = status, !.error = error, !.route = "results"]

OkReply(updated) ==
  [NoReply EXCEPT !.status = 200, !.updated = updated, !.route = "results"]

InitApi ==
  /\ users = SeedUsers
  /\ userResults = {}
  /\ req = [h \in Handlers |-> Idle]
  /\ last = NoReply
  /\ issued = 0
  /\ benchmarkAthletes = SeedAthletes
  /\ benchmarkResults = SeedBenchmarkResults

(* -------------------------- POST /results ------------------------------ *)

\* body.email ? normalizeIdentifier(body.email) : undefined
Identifier(body) ==
  IF body.email # NONE THEN normalizeIdentifier(body.email) ELSE NONE

\* mutant: the handler makes sure of the user before it validates the score
PostReceiveBody_ValidateAfterUser(h, body) ==
  /\ req[h].pc = "idle"
  /\ issued < MaxRequests
  /\ issued' = issued + 1
  /\   LET found == FindWorkout(body.workoutId)
           workout == CHOOSE w \in found : TRUE
       IN IF body.userId = NONE /\ body.email = NONE
          THEN Reply(h, ErrorReply(500, "ZodError"))
               /\ UNCHANGED <<users, userResults>>
          ELSE IF found = {}
          THEN Reply(h, ErrorReply(404, "Workout not found"))
               /\ UNCHANGED <<users, userResults>>
          ELSE IF assertScoreMatchesType(workout.scoreType, body.score) # "ok"
          THEN /\ Reply(h, ErrorReply(400,
                     assertScoreMatchesType(workout.scoreType, body.score)))
               /\ users' = IF Identifier(body) # NONE
                              /\ UserEmailFree(Identifier(body))
                           THEN users \cup {[id |-> NewUserId(Identifier(body)),
                                             email |-> Identifier(body)]}
                           ELSE users
               /\ UNCHANGED userResults
          ELSE /\ req' = [req EXCEPT ![h] = [Idle EXCEPT !.pc = "findUser",
                                                         !.body = body]]
               /\ UNCHANGED <<users, userResults, last>>
  /\ UNCHANGED <<benchVars, callVars, result>>

\* lines 110-126: the body is parsed (LogResultSchema.parse throws when it
\* carries neither userId nor email), the workout is read and the score is
\* validated; then the user is looked up.  The table Workout is written by
\* no handler, so its read is taken in the same step.
PostReceiveBody(h, body) ==
  /\ req[h].pc = "idle"
  /\ issued < MaxRequests
  /\ issued' = issued + 1
  /\   LET found == FindWorkout(body.workoutId)
           workout == CHOOSE w \in found : TRUE
       IN IF body.userId = NONE /\ body.email = NONE
          THEN Reply(h, ErrorReply(500, "ZodError"))
          ELSE IF found = {}
          THEN Reply(h, ErrorReply(404, "Workout not found"))
          ELSE IF assertScoreMatchesType(workout.scoreType, body.score) # "ok"
          THEN Reply(h, ErrorReply(400,
                     assertScoreMatchesType(workout.scoreType, body.score)))
          ELSE /\ req' = [req EXCEPT ![h] = [Idle EXCEPT !.pc = "findUser",
                                                         !.body = body]]
               /\ UNCHANGED last
  /\ UNCHANGED <<users, userResults, benchVars, callVars, result>>

\* a request arrives at a free handler slot
PostReceive(h) == \E body \in PostBodies : PostReceiveBody(h, body)

\* lines 128-145: prisma.user.findUnique by id or by identifier returns
PostFindUser(h) ==
  /\ req[h].pc = "findUser"
  /\ LET body == req[h].body
         identifier == Identifier(body)
         found == IF body.userId # NONE THEN FindUserById(body.userId)
                  ELSE IF identifier # NONE THEN FindUserByEmail(identifier)
                  ELSE {}
     IN IF found # {}
        THEN /\ req' = [req EXCEPT ![h].pc = "upsertFind",
                                   ![h].user = (CHOOSE u \in found : TRUE).id]
             /\ UNCHANGED last
        ELSE IF identifier # NONE
        THEN /\ req' = [req EXCEPT ![h].pc = "createUser"]
             /\ UNCHANGED last
        ELSE Reply(h, ErrorReply(400, "Du maa sende userId eller email"))
  /\ UNCHANGED <<users, userResults, issued, benchVars, callVars, result>>

\* lines 139-143: prisma.user.create returns, or throws on User_email_key
PostCreateUser(h) ==
  /\ req[h].pc = "createUser"
  /\ LET body == req[h].body
         identifier == Identifier(body)
     IN IF UserEmailFree(identifier)
        THEN /\ users' = users \cup {[id |-> NewUserId(identifier),
                                      email |-> identifier]}
             /\ req' = [req EXCEPT ![h].pc = "upsertFind",
                                   ![h].user = NewUserId(identifier)]
             /\ UNCHANGED last
        ELSE /\ Reply(h, ErrorReply(500, "P2002 User_email_key"))
             /\ UNCHANGED users
  /\ UNCHANGED <<userResults, issued, benchVars, callVars, result>>

\* lines 147-151, first half: the upsert reads the row of its where clause
PostUpsertFind(h) ==
  /\ req[h].pc = "upsertFind"
  /\ LET found == FindUserResult(req[h].user, req[h].body.workoutId)
     IN req' = [req EXCEPT ![h].pc = "upsertWrite",
                           ![h].existing = IF found = {} THEN 0
                                           ELSE (CHOOSE r \in found : TRUE).id]
  /\ UNCHANGED <<users, userResults, last, issued, benchVars, callVars,
                  result>>

\* lines 147-153, second half: the upsert updates the row it read, or
\* inserts one (refused by UserResult_userId_workoutId_key when another
\* request inserted it meanwhile), and the handler replies
PostUpsertWrite(h) ==
  /\ req[h].pc = "upsertWrite"
  /\ LET body == req[h].body
         user == CHOOSE u \in users : u.id = req[h].user
     IN IF req[h].existing # 0
        THEN LET row == CHOOSE r \in userResults : r.id = req[h].existing
                 new == UpdatedRow(row, body.score)
             IN /\ userResults' = (userResults \ {row}) \cup {new}
                /\ Reply(h, OkReply(TRUE))
        ELSE IF UserResultKeyFree(user.id, body.workoutId)
        THEN LET new == CreatedRow(Cardinality(userResults) + 1, user.id,
                                   body.workoutId, body.score)
             IN /\ userResults' = userResults \cup {new}
                /\ Reply(h, OkReply(FALSE))
        ELSE /\ Reply(h, ErrorReply(500,
                                    "P2002 UserResult_userId_workoutId_key"))
             /\ UNCHANGED userResults
  /\ UNCHANGED <<users, issued, benchVars, callVars, result>>

(* ------------------------------ the reads ------------------------------ *)

\* the userId and email parameters of the query strings
QueryLookups ==
  {[userId |-> "u1", email |-> NONE], [userId |-> "u9", email |-> NONE],
   [userId |-> "u9", email |-> "A"], [userId |-> NONE, email |-> NONE],
   [userId |-> NONE, email |-> " "], [userId |-> NONE, email |-> "A"],
   [userId |-> NONE, email |-> "b"]}

\* the workoutId parameter of the paths
QueryWorkoutIds == {"w1", "w2", "w9"}

\* the orders in which a findMany without orderBy may return the rows S
Orders(S) ==
  {f \in [1..Cardinality(S) -> S] : \A i, j \in DOMAIN f : f[i] = f[j] => i = j}

\* select: { timeSeconds, reps, loadKg, tiebreakSecs }, and the same four
\* fields copied from a row
ScoreOf(row) ==
  [timeSeconds |-> row.timeSeconds, reps |-> row.reps,
   loadKg |-> row.loadKg, tiebreakSecs |-> row.tiebreakSecs]

\* prisma.benchmarkResult.findMany({ where: { workoutId }, select }):
\* the lists it may return
FindBenchmark(workoutId) ==
  LET rows == Orders({r \in benchmarkResults : r.workoutId = workoutId})
  IN {[k \in DOMAIN f |-> ScoreOf(f[k])] : f \in rows}

\* mutant: an identifier that no user has is not reported as an error
resolveUserIdOrThrow_UnknownUnreported(lookup) ==
  LET identifier ==
        normalizeIdentifier(IF lookup.email = NONE THEN "" ELSE lookup.email)
      found == FindUserByEmail(identifier)
  IN IF lookup.userId # NONE THEN [userId |-> lookup.userId, error |-> ""]
     ELSE IF identifier = ""
     THEN [userId |-> NONE, error |-> "Missing userId or email"]
     ELSE IF found = {} THEN [userId |-> NONE, error |-> ""]
     ELSE [userId |-> (CHOOSE u \in found : TRUE).id, error |-> ""]

\* the user id returned, or the message of the error thrown
resolveUserIdOrThrow(lookup) ==
  LET identifier ==
        normalizeIdentifier(IF lookup.email = NONE THEN "" ELSE lookup.email)
      found == FindUserByEmail(identifier)
  IN IF lookup.userId # NONE THEN [userId |-> lookup.userId, error |-> ""]
     ELSE IF identifier = ""
     THEN [userId |-> NONE, error |-> "Missing userId or email"]
     ELSE IF found = {}
     THEN [userId |-> NONE, error |-> "User not found for email/identifier"]
     ELSE [userId |-> (CHOOSE u \in found : TRUE).id, error |-> ""]

\* the reply of a read is sent: the slot keeps the query until the client,
\* which sends one request after the other, has taken the reply
ReadReply(h, query, r) ==
  /\ last' = r
  /\ req' = [req EXCEPT ![h] = [Idle EXCEPT !.pc = "replied",
                                             !.query = query]]

\* the client takes the reply of its read
TakeReply(h) ==
  /\ req[h].pc = "replied"
  /\ req' = [req EXCEPT ![h] = Idle]
  /\ last' = NoReply
  /\ UNCHANGED <<users, userResults, issued, benchVars, callVars, result>>

DataReply(route, data) ==
  [NoReply EXCEPT !.status = 200, !.route = route, !.data = data]

ReadError(route, status, error) ==
  [NoReply EXCEPT !.status = status, !.error = error, !.route = route]

\* beatenCount, rank and points of a score against a benchmark list, as
\* both GET /compare and GET /summary compute them
RankResultOf(beaten, rk) ==
  [beatenCount |-> beaten, rank |-> rk, points |-> pointsFromRank(rk)]

RankResult(st, us, benchmark) ==
  RankResultOf(computeBenchmarkBeatenCount(st, us, benchmark),
               computeRankAmongBenchmarkPlusUser(st, us, benchmark))

(* --------------------- GET /compare/workout/:workoutId ----------------- *)

\* lines 180-198: the reply built from the user's score, the benchmark
\* list and the ranking of the one against the other
CompareData(us, benchmark, rr) ==
  DataReply("compare",
            [userScore |-> us, benchmarkTotal |-> Len(benchmark),
             beatenCount |-> rr.beatenCount, rank |-> rr.rank,
             points |-> rr.points])

\* mutant: the ranking is computed without the benchmark rows
CompareReply_NoBenchmark(lookup, workoutId, benchmark) ==
  LET resolved == resolveUserIdOrThrow(lookup)
      workout == FindWorkout(workoutId)
      userResult == FindUserResult(resolved.userId, workoutId)
  IN IF resolved.error # "" THEN ReadError("compare", 400, resolved.error)
     ELSE IF workout = {} THEN ReadError("compare", 404, "Workout not found")
     ELSE IF userResult = {}
     THEN ReadError("compare", 404, "No user result for workout")
     ELSE CompareData(ScoreOf(CHOOSE r \in userResult : TRUE), benchmark,
                      RankResult((CHOOSE w \in workout : TRUE).scoreType,
                                 ScoreOf(CHOOSE r \in userResult : TRUE),
                                 <<>>))

\* lines 157-198: what the handler replies to a query, benchmark being the
\* list the findMany of line 175 returns
CompareReply(lookup, workoutId, benchmark) ==
  LET resolved == resolveUserIdOrThrow(lookup)
      workout == FindWorkout(workoutId)
      userResult == FindUserResult(resolved.userId, workoutId)
  IN IF resolved.error # "" THEN ReadError("compare", 400, resolved.error)
     ELSE IF workout = {} THEN ReadError("compare", 404, "Workout not found")
     ELSE IF userResult = {}
     THEN ReadError("compare", 404, "No user result for workout")
     ELSE CompareData(ScoreOf(CHOOSE r \in userResult : TRUE), benchmark,
                      RankResult((CHOOSE w \in workout : TRUE).scoreType,
                                 ScoreOf(CHOOSE r \in userResult : TRUE),
                                 benchmark))

GetCompareQuery(h, lookup, workoutId, benchmark) ==
  /\ req[h].pc = "idle"
  /\ ReadReply(h, [route |-> "compare", lookup |-> lookup,
                    workoutId |-> workoutId, benchmark |-> benchmark],
               CompareReply(lookup, workoutId, benchmark))
  /\ UNCHANGED <<users, userResults, issued, benchVars, callVars, result>>

\* a request arrives at a free handler slot and is answered
GetCompare(h) ==
  /\ req[h].pc = "idle"
  /\ \E lookup \in QueryLookups, workoutId \in QueryWorkoutIds :
       \E benchmark \in FindBenchmark(workoutId) :
         GetCompareQuery(h, lookup, workoutId, benchmark)

(* ----------------------------- GET /summary ---------------------------- *)

\* the table Season of the seed
Seasons == {2026}

\* the season, competition and division parameters of the query strings;
\* "X" is no value of CompetitionSchema
SummaryScopes ==
  [season : {2025, 2026}, competition : {"OPEN", "GAMES", "X"},
   division : {"MEN", "WOMEN"}]

\* CompetitionSchema.parse and DivisionSchema.parse return
ScopeParsed(scope) ==
  /\ scope.competition \in {"OPEN", "GAMES"}
  /\ scope.division \in {"MEN", "WOMEN"}

\* the rows of prisma.workout.findMany({ where: { seasonId, competition,
\* division } }), no row when the season does not exist
InScope(scope) ==
  {w \in Workouts : /\ scope.season \in Seasons
                    /\ w.season = scope.season
                    /\ w.competition = scope.competition
                    /\ w.division = scope.division}

\* one list of benchmark scores per workout of W, as the findMany of line
\* 240 may return them
BenchmarkLists(W) ==
  {f \in [{w.id : w \in W} ->
            UNION {FindBenchmark(w.id) : w \in W}] :
     \A id \in DOMAIN f : f[id] \in FindBenchmark(id)}

\* mutant: the entry is put at the front of perWorkout
SummaryEntry_Unshift(prev, w, rr) ==
  [totalPoints |-> prev.totalPoints + rr.points,
   perWorkout |-> <<[workoutId |-> w.id, points |-> rr.points,
                     beatenCount |-> rr.beatenCount, rank |-> rr.rank]>>
                  \o prev.perWorkout]

\* lines 256-257: totalPoints += points and perWorkout.push(...)
SummaryEntry(prev, w, rr) ==
  [totalPoints |-> prev.totalPoints + rr.points,
   perWorkout |-> Append(prev.perWorkout,
                         [workoutId |-> w.id, points |-> rr.points,
                          beatenCount |-> rr.beatenCount, rank |-> rr.rank])]

\* mutant: a workout without a result gets an entry of 0 points
SummaryRound_ZeroEntry(prev, userId, w, benchmark) ==
  LET ur == FindUserResult(userId, w.id)
  IN IF ur = {} THEN SummaryEntry(prev, w, RankResultOf(0, 0))
     ELSE SummaryEntry(prev, w,
                       RankResult(w.scoreType, ScoreOf(CHOOSE r \in ur : TRUE),
                                  benchmark))

\* lines 237-257: one round of the loop over workouts, for the workout w
\* and the benchmark list read for it; prev holds totalPoints and
\* perWorkout as the rounds before left them
SummaryRound(prev, userId, w, benchmark) ==
  LET ur == FindUserResult(userId, w.id)
  IN IF ur = {} THEN prev
     ELSE SummaryEntry(prev, w,
                       RankResult(w.scoreType, ScoreOf(CHOOSE r \in ur : TRUE),
                                  benchmark))

\* lines 233-258: totalPoints and perWorkout after the first n rounds
RECURSIVE SummaryAfter(_, _, _, _)
SummaryAfter(userId, workouts, benchmarkOf, n) ==
  IF n = 0 THEN [totalPoints |-> 0, perWorkout |-> <<>>]
  ELSE SummaryRound(SummaryAfter(userId, workouts, benchmarkOf, n - 1),
                    userId, workouts[n], benchmarkOf[workouts[n].id])

\* lines 210-267: what the handler replies, workouts being the list the
\* findMany of line 224 returns and benchmarkOf the lists of line 240
\* lines 260-267
SummaryData(sum) ==
  DataReply("summary",
            [completedWorkouts |-> Len(sum.perWorkout),
             totalPoints |-> sum.totalPoints, perWorkout |-> sum.perWorkout])

SummaryReply(lookup, scope, workouts, benchmarkOf) ==
  LET resolved == resolveUserIdOrThrow(lookup)
  IN IF ~ScopeParsed(scope) THEN ReadError("summary", 500, "ZodError")
     ELSE IF resolved.error # "" THEN ReadError("summary", 400, resolved.error)
     ELSE IF scope.season \notin Seasons
     THEN SummaryData([totalPoints |-> 0, perWorkout |-> <<>>])
     ELSE SummaryData(SummaryAfter(resolved.userId, workouts, benchmarkOf,
                                   Len(workouts)))

GetSummaryQuery(h, lookup, scope, workouts, benchmarkOf) ==
  /\ req[h].pc = "idle"
  /\ ReadReply(h, [route |-> "summary", lookup |-> lookup, scope |-> scope,
                    workouts |-> workouts, benchmarkOf |-> benchmarkOf],
               SummaryReply(lookup, scope, workouts, benchmarkOf))
  /\ UNCHANGED <<users, userResults, issued, benchVars, callVars, result>>

GetSummary(h) ==
  /\ req[h].pc = "idle"
  /\ \E lookup \in QueryLookups, scope \in SummaryScopes :
       \E workouts \in Orders(InScope(scope)) :
         \E benchmarkOf \in BenchmarkLists(InScope(scope)) :
           GetSummaryQuery(h, lookup, scope, workouts, benchmarkOf)

(* ------------------- GET /leaderboard/workout/:workoutId --------------- *)

\* Number(q.limit ?? 50) for the limit parameters of the query strings:
\* none, "0", "1", "500" and one that is no number
LimitParams == {UNDEFINED, 0, 1, 500, NaN}

\* Math.min and Math.max of two numbers: NaN when one of them is NaN
MathMin(x, y) == IF x = NaN \/ y = NaN THEN NaN ELSE IF x < y THEN x ELSE y

MathMax(x, y) == IF x = NaN \/ y = NaN THEN NaN ELSE IF x > y THEN x ELSE y

\* line 273
Limit(param) == MathMax(1, MathMin(200, Coalesce(param, 50)))

\* seq.slice(0, end): a NaN end counts as 0
SliceTo(seq, end) ==
  LET e == IF end = NaN THEN 0 ELSE end
      k == IF e < 0 THEN MathMax(Len(seq) + e, 0) ELSE MathMin(e, Len(seq))
  IN SubSeq(seq, 1, k)

\* lines 275-299: what the handler replies, results being the rows the
\* findMany of line 278 returns, in the order it returns them
LeaderboardReply(workoutId, param, results) ==
  LET workout == FindWorkout(workoutId)
      st == (CHOOSE w \in workout : TRUE).scoreType
      scores == [k \in DOMAIN results |-> ScoreOf(results[k])]
      order == SortedIndices(st, scores, Len(scores))
      sorted == [k \in DOMAIN results |-> results[order[k]]]
      page == SliceTo(sorted, Limit(param))
  IN IF workout = {} THEN ReadError("leaderboard", 404, "Workout not found")
     ELSE DataReply("leaderboard",
                    [idx \in DOMAIN page |->
                       [rank |-> idx, userId |-> page[idx].userId,
                        score |-> ScoreOf(page[idx])]])

GetLeaderboardQuery(h, workoutId, param, results) ==
  /\ req[h].pc = "idle"
  /\ ReadReply(h, [route |-> "leaderboard", workoutId |-> workoutId,
                    limit |-> param, results |-> results],
               LeaderboardReply(workoutId, param, results))
  /\ UNCHANGED <<users, userResults, issued, benchVars, callVars, result>>

GetLeaderboard(h) ==
  /\ req[h].pc = "idle"
  /\ \E workoutId \in QueryWorkoutIds, param \in LimitParams :
       \E results \in Orders({r \in userResults : r.workoutId = workoutId}) :
         GetLeaderboardQuery(h, workoutId, param, results)

(* -------------------- GET /benchmark/workout/:workoutId ---------------- *)

\* include: { athlete: { select: { rank } } }
AthleteRank(row) ==
  (CHOOSE x \in benchmarkAthletes : x.id = row.athleteId).rank

\* rows.sort((a, b) => a.athlete.rank - b.athlete.rank), one insertion
InsertByRank(rows, placed, i) ==
  LET p == Cardinality({k \in 1..Len(placed) :
                          AthleteRank(rows[placed[k]]) - AthleteRank(rows[i]) <= 0})
  IN SubSeq(placed, 1, p) \o <<i>> \o SubSeq(placed, p + 1, Len(placed))

RECURSIVE SortedByRank(_, _)
SortedByRank(rows, n) ==
  IF n = 0 THEN <<>> ELSE InsertByRank(rows, SortedByRank(rows, n - 1), n)

\* lines 305-327: what the handler replies, rows being the rows the
\* findMany of line 308 returns, in the order it returns them
BenchmarkReply(workoutId, rows) ==
  LET workout == FindWorkout(workoutId)
      order == SortedByRank(rows, Len(rows))
  IN IF workout = {} THEN ReadError("benchmark", 404, "Workout not found")
     ELSE DataReply("benchmark",
                    [k \in DOMAIN rows |->
                       [rank |-> AthleteRank(rows[order[k]]),
                        score |-> normalize(rows[order[k]])]])

\* mutant: the handler writes the ranks of the sorted rows back
GetBenchmarkQuery_Renumber(h, workoutId, rows) ==
  /\ req[h].pc = "idle"
  /\ ReadReply(h, [route |-> "benchmark", workoutId |-> workoutId,
                    rows |-> rows],
               BenchmarkReply(workoutId, rows))
  /\ benchmarkAthletes' =
       {[x EXCEPT !.rank = IF \E k \in DOMAIN rows : rows[k].athleteId = x.id
                           THEN 1 ELSE @] : x \in benchmarkAthletes}
  /\ UNCHANGED <<users, userResults, issued, benchmarkResults, callVars,
                  result>>

GetBenchmarkQuery(h, workoutId, rows) ==
  /\ req[h].pc = "idle"
  /\ ReadReply(h, [route |-> "benchmark", workoutId |-> workoutId,
                    rows |-> rows],
               BenchmarkReply(workoutId, rows))
  /\ UNCHANGED <<users, userResults, issued, benchVars, callVars, result>>

GetBenchmark(h) ==
  /\ req[h].pc = "idle"
  /\ \E workoutId \in QueryWorkoutIds :
       \E rows \in Orders({r \in benchmarkResults : r.workoutId = workoutId}) :
         GetBenchmarkQuery(h, workoutId, rows)

Init ==
  /\ scoreType = "TIME"
  /\ a = NullScore
  /\ b = NullScore
  /\ userScore = NullScore
  /\ benchmarkScores = <<>>
  /\ rank = 0
  /\ result = NoResult
  /\ InitApi

Next ==
  \E h \in Handlers :
    \/ PostReceive(h)
    \/ PostFindUser(h)
    \/ PostCreateUser(h)
    \/ PostUpsertFind(h)
    \/ PostUpsertWrite(h)

Spec == Init /\ [][Next]_vars

\* the same handler with the requests arriving one after the other
NextSerial ==
  \/ PostReceive(1)
  \/ PostFindUser(1)
  \/ PostCreateUser(1)
  \/ PostUpsertFind(1)
  \/ PostUpsertWrite(1)

SpecSerial == Init /\ [][NextSerial]_vars

\* the writes and the reads, one request after the other
NextApi ==
  \/ PostReceive(1)
  \/ PostFindUser(1)
  \/ PostCreateUser(1)
  \/ PostUpsertFind(1)
  \/ PostUpsertWrite(1)
  \/ GetCompare(1)
  \/ GetSummary(1)
  \/ GetLeaderboard(1)
  \/ GetBenchmark(1)
  \/ TakeReply(1)

SpecApi == Init /\ [][NextApi]_vars

(* ----------------- the comparator and validator, applied --------------- *)

InitCompare ==
  /\ scoreType \in ScoreTypes
  /\ a \in Scores \cup BodyScores
  /\ b \in Scores
  /\ userScore = NullScore
  /\ benchmarkScores = <<>>
  /\ rank = 0
  /\ result = NoResult
  /\ InitApi

CallCompare ==
  /\ result' = [op |-> "compare", value |-> compareScores(scoreType, a, b),
                text |-> ""]
  /\ UNCHANGED <<callVars, apiVars>>

CallAssert ==
  /\ result' = [op |-> "assert", value |-> 0,
                text |-> assertScoreMatchesType(scoreType, a)]
  /\ UNCHANGED <<callVars, apiVars>>

NextCompare == CallCompare \/ CallAssert

SpecCompare == InitCompare /\ [][NextCompare]_vars

\* discipline values that are no member of the ScoreType enum; the type
\* annotation is erased at run time, so the two functions can be called
\* with them
UnknownScoreTypes == {"AMRAP", "time", ""}

InitDiscipline ==
  /\ scoreType \in UnknownScoreTypes
  /\ a \in Scores \cup BodyScores
  /\ b \in Scores
  /\ userScore = NullScore
  /\ benchmarkScores = <<>>
  /\ rank = 0
  /\ result = NoResult
  /\ InitApi

SpecDiscipline == InitDiscipline /\ [][NextCompare]_vars

(* ------------------------ the ranking, applied ------------------------- *)

\* the column values of the ranking runs
RankValues == {NULL, 0, 1}

\* the rows of the ranking runs: the fields the discipline compares and
\* tiebreakSecs vary, the other fields are null
RankScores(st) ==
  {s \in [timeSeconds : RankValues, reps : RankValues, loadKg : RankValues,
          tiebreakSecs : {NULL, 0}] :
     /\ st \notin {"TIME", "TIME_REPS"} => s.timeSeconds = NULL
     /\ st \notin {"REPS", "TIME_REPS"} => s.reps = NULL
     /\ st # "LOAD" => s.loadKg = NULL}

SeqsUpTo(S, n) == UNION {[1..k -> S] : k \in 0..n}

InitRank ==
  /\ scoreType \in ScoreTypes
  /\ userScore \in RankScores(scoreType)
  /\ benchmarkScores \in SeqsUpTo(RankScores(scoreType), MaxBench)
  /\ a = NullScore
  /\ b = NullScore
  /\ rank = 0
  /\ result = NoResult
  /\ InitApi

CallBeaten ==
  /\ result' = [op |-> "beaten",
                value |-> computeBenchmarkBeatenCount(scoreType, userScore,
                                                      benchmarkScores),
                text |-> ""]
  /\ UNCHANGED <<callVars, apiVars>>

CallRank ==
  /\ result' = [op |-> "rank",
                value |-> computeRankAmongBenchmarkPlusUser(scoreType, userScore,
                                                            benchmarkScores),
                text |-> ""]
  /\ benchmarkScores' = benchmarkScoresAfterRank(scoreType, userScore,
                                                  benchmarkScores)
  /\ UNCHANGED <<scoreType, a, b, userScore, rank, apiVars>>

NextRank == CallBeaten \/ CallRank

SpecRank == InitRank /\ [][NextRank]_vars

(* the ranking functions on the seeded REPS benchmark *)

\* number of seeded benchmark athletes
SeedCount == 40

\* Math.round(n / d) for n >= 0, d > 0
MathRound(n, d) == (2 * n + d) \div (2 * d)

\* reps of the seeded benchmark athlete of a rank: 420 down to 260
SeedReps(r) == 420 - MathRound((r - 1) * 160, SeedCount - 1)

\* the REPS benchmark rows of the seed as scores, in rank order
SeedRepsScores ==
  [r \in 1..SeedCount |-> [NullScore EXCEPT !.reps = SeedReps(r)]]

\* reps a user logs against the seeded workout
SeedUserReps == 250..430

InitSeed ==
  /\ scoreType = "REPS"
  /\ userScore \in {[NullScore EXCEPT !.reps = n] : n \in SeedUserReps}
  /\ benchmarkScores = SeedRepsScores
  /\ a = NullScore
  /\ b = NullScore
  /\ rank = 0
  /\ result = NoResult
  /\ InitApi

\* scenario B asks for the beatenCount of the user
NextSeed == CallBeaten

SpecSeed == InitSeed /\ [][NextSeed]_vars

(* ------------------------- the points, applied ------------------------- *)

\* the ranks pointsFromRank is applied to: the scale 1..40 and what lies
\* on both sides of it
RankArgs == (0 - 15)..56

InitPoints ==
  /\ rank \in RankArgs
  /\ scoreType = "TIME"
  /\ a = NullScore
  /\ b = NullScore
  /\ userScore = NullScore
  /\ benchmarkScores = <<>>
  /\ result = NoResult
  /\ InitApi

CallPoints ==
  /\ result' = [op |-> "points", value |-> pointsFromRank(rank), text |-> ""]
  /\ UNCHANGED <<callVars, apiVars>>

NextPoints == CallPoints

SpecPoints == InitPoints /\ [][NextPoints]_vars

(* ------------------- claims on the comparator and validator ------------ *)

Sign(n) == IF n < 0 THEN -1 ELSE IF n > 0 THEN 1 ELSE 0

\* C2: compareScores(a, b) is the negation of compareScores(b, a), and a
\* score compared with itself gives 0, in every discipline (also with
\* timeSeconds missing on one or both sides under TIME_REPS).
C2_Antisymmetric ==
  result.op = "compare" =>
    /\ result.value = -compareScores(scoreType, b, a)
    /\ compareScores(scoreType, a, a) = 0
    /\ compareScores(scoreType, b, b) = 0

C2_Witness ==
  /\ result.op = "compare"
  /\ scoreType = "TIME_REPS"
  /\ a.reps = b.reps /\ IsNumber(a.reps)
  /\ ~IsNumber(a.timeSeconds) /\ IsNumber(b.timeSeconds)
  /\ result.value > 0

\* C3: within one discipline compareScores is a total preorder: any two
\* scores are comparable (the result is a number and one of the two
\* directions is <= 0) and <= 0 is transitive.
C3_TotalPreorder ==
  result.op = "compare" =>
    /\ result.value # NaN
    /\ result.value <= 0 \/ compareScores(scoreType, b, a) <= 0
    /\ \A c \in Scores :
         (result.value <= 0 /\ compareScores(scoreType, b, c) <= 0)
           => compareScores(scoreType, a, c) <= 0

C3_Witness ==
  /\ result.op = "compare"
  /\ scoreType = "TIME_REPS"
  /\ a.reps = b.reps /\ IsNumber(a.timeSeconds) /\ b.timeSeconds = NULL
  /\ result.value < 0
  /\ \E c \in Scores :
       /\ compareScores(scoreType, b, c) < 0
       /\ compareScores(scoreType, a, c) < 0

\* C4: under TIME_REPS more reps is better; with equal reps the lower time
\* is better, a missing time loses to every recorded time, and two missing
\* times tie.
C4_TimeRepsOrder ==
  (result.op = "compare" /\ scoreType = "TIME_REPS"
     /\ IsNumber(a.reps) /\ IsNumber(b.reps)) =>
    /\ a.reps > b.reps => result.value < 0
    /\ a.reps < b.reps => result.value > 0
    /\ a.reps = b.reps =>
         /\ (IsNumber(a.timeSeconds) /\ IsNumber(b.timeSeconds))
              => Sign(result.value) = Sign(a.timeSeconds - b.timeSeconds)
         /\ (~IsNumber(a.timeSeconds) /\ IsNumber(b.timeSeconds))
              => result.value > 0
         /\ (IsNumber(a.timeSeconds) /\ ~IsNumber(b.timeSeconds))
              => result.value < 0
         /\ (~IsNumber(a.timeSeconds) /\ ~IsNumber(b.timeSeconds))
              => result.value = 0

C4_Witness ==
  /\ result.op = "compare"
  /\ scoreType = "TIME_REPS"
  /\ a.reps = 1 /\ b.reps = 1
  /\ a.timeSeconds = 0 /\ b.timeSeconds = NULL
  /\ result.value < 0

\* C5: under TIME, REPS and LOAD, for scores that have the discipline's
\* field, the result is negative exactly when a is better (lower time,
\* more reps, more load) and zero exactly when the field is equal.
C5_SingleFieldOrder ==
  result.op = "compare" =>
    /\ (scoreType = "TIME" /\ IsNumber(a.timeSeconds) /\ IsNumber(b.timeSeconds))
         => /\ result.value < 0 <=> a.timeSeconds < b.timeSeconds
            /\ result.value = 0 <=> a.timeSeconds = b.timeSeconds
    /\ (scoreType = "REPS" /\ IsNumber(a.reps) /\ IsNumber(b.reps))
         => /\ result.value < 0 <=> a.reps > b.reps
            /\ result.value = 0 <=> a.reps = b.reps
    /\ (scoreType = "LOAD" /\ IsNumber(a.loadKg) /\ IsNumber(b.loadKg))
         => /\ result.value < 0 <=> a.loadKg > b.loadKg
            /\ result.value = 0 <=> a.loadKg = b.loadKg

C5_Witness ==
  /\ result.op = "compare"
  /\ scoreType = "REPS"
  /\ a.reps = 1 /\ b.reps = 0
  /\ result.value < 0

\* the field each single-field discipline orders by
DisciplineField(st) ==
  CASE st = "TIME" -> "timeSeconds"
    [] st = "REPS" -> "reps"
    [] st = "LOAD" -> "loadKg"

\* C6: a score whose discipline field is missing never compares as a tie
\* with a score whose discipline field is 0 (TIME, REPS, LOAD).
C6_AbsentIsNotZero ==
  (result.op = "compare" /\ scoreType \in {"TIME", "REPS", "LOAD"}
     /\ ~IsNumber(a[DisciplineField(scoreType)])
     /\ b[DisciplineField(scoreType)] = 0)
    => result.value # 0

\* the field the rule table of the validator requires
RequiredField(st) ==
  CASE st = "TIME" -> "timeSeconds"
    [] st = "REPS" -> "reps"
    [] st = "LOAD" -> "loadKg"
    [] st = "TIME_REPS" -> "reps"

\* C7: the validator fails exactly when the one field its discipline
\* requires is missing, whatever the other fields hold.
C7_ValidatorRule ==
  result.op = "assert" =>
    (result.text # "ok" <=> ~IsNumber(a[RequiredField(scoreType)]))

C7_Witness ==
  /\ result.op = "assert"
  /\ \/ /\ scoreType = "TIME"
        /\ a = [timeSeconds |-> UNDEFINED, reps |-> 1, loadKg |-> UNDEFINED,
                tiebreakSecs |-> UNDEFINED]
        /\ result.text = "TIME krever timeSeconds"
     \/ /\ scoreType = "TIME_REPS"
        /\ a = [timeSeconds |-> UNDEFINED, reps |-> 1, loadKg |-> UNDEFINED,
                tiebreakSecs |-> UNDEFINED]
        /\ result.text = "ok"

\* C23: the result of compareScores does not change when the tiebreakSecs
\* of either score is changed, added or removed, in every discipline.
C23_TiebreakSecsIgnored ==
  result.op = "compare" =>
    \A ta, tb \in {NULL, UNDEFINED, 0, 1} :
      compareScores(scoreType, [a EXCEPT !.tiebreakSecs = ta],
                    [b EXCEPT !.tiebreakSecs = tb]) = result.value

C23_Witness ==
  /\ result.op = "compare"
  /\ scoreType = "TIME_REPS"
  /\ a.reps = b.reps /\ IsNumber(a.reps)
  /\ a.timeSeconds = b.timeSeconds /\ IsNumber(a.timeSeconds)
  /\ a.tiebreakSecs = 0 /\ b.tiebreakSecs = NULL
  /\ result.value = 0

\* C22: for a discipline outside {TIME, REPS, LOAD, TIME_REPS} the
\* validator does not accept the score and the comparator returns no value:
\* both calls end with an error (result.text is the error of the call, "ok"
\* for an accepted score and "" for a returned comparison).
C22_UnknownDisciplineFails ==
  scoreType \notin ScoreTypes =>
    /\ result.op = "assert" => result.text # "ok"
    /\ result.op = "compare" => result.text # ""

(* ------------------------- claims on the ranking ----------------------- *)

\* the place of the user's own entry, the last of the unsorted list, after
\* the stable sort
OwnPosition(st, us, bs) ==
  LET all == Append(bs, us)
      order == SortedIndices(st, all, Len(all))
  IN CHOOSE k \in 1..Len(all) : order[k] = Len(all)

\* C1: the merged rank is the 1-based position of the user's own entry in
\* the stably sorted list of the benchmark scores followed by the user's
\* score, also when a benchmark entry has the same four fields as the user.
C1_RankIsOwnPosition ==
  result.op = "rank" =>
    result.value = OwnPosition(scoreType, userScore, benchmarkScores)

\* C11: beatenCount is the number of benchmark entries the user's score
\* compares strictly better than (compare < 0); an entry that ties with the
\* user is not counted, and the count lies in 0..N.
C11_BeatenCountsStrictlyBetter ==
  result.op = "beaten" =>
    /\ result.value =
         Cardinality({i \in 1..Len(benchmarkScores) :
            compareScores(scoreType, userScore, benchmarkScores[i]) < 0})
    /\ result.value >= 0
    /\ result.value <= Len(benchmarkScores)

C11_Witness ==
  /\ result.op = "beaten"
  /\ Len(benchmarkScores) = 2
  /\ compareScores(scoreType, userScore, benchmarkScores[1]) = 0
  /\ compareScores(scoreType, userScore, benchmarkScores[2]) < 0
  /\ result.value = 1

\* C12: the merged rank lies in 1..N+1 for a benchmark of N entries, also
\* for N = 0 and for lists with ties and duplicates.
C12_RankBounds ==
  result.op = "rank" =>
    /\ result.value >= 1
    /\ result.value <= Len(benchmarkScores) + 1

C12_Witness ==
  /\ result.op = "rank"
  /\ Len(benchmarkScores) = 2
  /\ benchmarkScores[1] = benchmarkScores[2]
  /\ compareScores(scoreType, userScore, benchmarkScores[1]) > 0
  /\ result.value = 3

\* C14: for a fixed discipline and benchmark list, a user score that is
\* strictly better than another never has the smaller beatenCount.
C14_BeatenMonotone ==
  result.op = "beaten" =>
    \A u2 \in RankScores(scoreType) :
      compareScores(scoreType, userScore, u2) < 0 =>
        result.value >=
          computeBenchmarkBeatenCount(scoreType, u2, benchmarkScores)

C14_Witness ==
  /\ result.op = "beaten"
  /\ result.value = 2
  /\ \E u2 \in RankScores(scoreType) :
       /\ compareScores(scoreType, userScore, u2) < 0
       /\ computeBenchmarkBeatenCount(scoreType, u2, benchmarkScores) = 1

\* C21: against an empty benchmark list the beatenCount is 0, the merged
\* rank is 1 and the points of that rank are 40, in every discipline.
C21_EmptyBenchmark ==
  Len(benchmarkScores) = 0 =>
    /\ result.op = "beaten" => result.value = 0
    /\ result.op = "rank" =>
         /\ result.value = 1
         /\ pointsFromRank(result.value) = 40

C21_Witness ==
  /\ Len(benchmarkScores) = 0
  /\ result.op = "rank"
  /\ scoreType = "TIME_REPS"
  /\ userScore.reps = 1
  /\ userScore.timeSeconds = NULL
  /\ result.value = 1

\* C27: rank <= N + 1 - beatenCount, and rank + beatenCount = N + 1 when no
\* benchmark entry has the four fields of the user's score (the entries
\* that tie with the user stand ahead of it).
C27_RankAndBeaten ==
  result.op = "rank" =>
    LET N == Len(benchmarkScores)
        beaten == computeBenchmarkBeatenCount(scoreType, userScore,
                                              benchmarkScores)
    IN /\ result.value <= N + 1 - beaten
       /\ (\A i \in 1..N : ~isSameScore(benchmarkScores[i], userScore))
            => result.value + beaten = N + 1

C27_Witness ==
  /\ result.op = "rank"
  /\ Len(benchmarkScores) = 2
  /\ compareScores(scoreType, userScore, benchmarkScores[1]) = 0
  /\ ~isSameScore(benchmarkScores[1], userScore)
  /\ compareScores(scoreType, userScore, benchmarkScores[2]) < 0
  /\ result.value = 2

\* C28: for a fixed discipline and benchmark list, a user score that is
\* strictly better than another has a rank that is not larger, and points
\* that are not fewer.
C28_RankMonotone ==
  result.op = "rank" =>
    \A u2 \in RankScores(scoreType) :
      compareScores(scoreType, userScore, u2) < 0 =>
        LET rank2 == computeRankAmongBenchmarkPlusUser(scoreType, u2,
                                                       benchmarkScores)
        IN /\ result.value <= rank2
           /\ pointsFromRank(result.value) >= pointsFromRank(rank2)

C28_Witness ==
  /\ result.op = "rank"
  /\ Len(benchmarkScores) = 2
  /\ result.value = 1
  /\ \E u2 \in RankScores(scoreType) :
       /\ compareScores(scoreType, userScore, u2) < 0
       /\ computeRankAmongBenchmarkPlusUser(scoreType, u2,
                                            benchmarkScores) = 3

\* the lists that hold the entries of bs in another order
Reorderings(bs) ==
  {[k \in DOMAIN bs |-> bs[p[k]]] :
     p \in {q \in [DOMAIN bs -> DOMAIN bs] :
              \A i, j \in DOMAIN bs : q[i] = q[j] => i = j}}

\* C26: the merged rank is the same for every order in which the entries
\* of the benchmark list are supplied.
C26_RankOrderIndependent ==
  result.op = "rank" =>
    \A other \in Reorderings(benchmarkScores) :
      computeRankAmongBenchmarkPlusUser(scoreType, userScore, other)
        = result.value

\* C24: on the seeded REPS benchmark (40 entries, 420 - round((r-1)/39*160)
\* reps for rank r) a user with 330 reps has a beatenCount equal to the
\* number of entries with fewer than 330 reps, which is 17; the entry with
\* exactly 330 reps (rank 23) is not counted.
C24_SeedScenarioB ==
  (/\ benchmarkScores = SeedRepsScores
   /\ userScore.reps = 330
   /\ result.op = "beaten") =>
    /\ result.value
         = Cardinality({r \in 1..SeedCount : benchmarkScores[r].reps < 330})
    /\ result.value = 17
    /\ benchmarkScores[23].reps = 330
    /\ benchmarkScores[1].reps = 420
    /\ benchmarkScores[SeedCount].reps = 260

C24_Witness ==
  /\ benchmarkScores = SeedRepsScores
  /\ Len(benchmarkScores) = 40
  /\ userScore.reps = 330
  /\ result.op = "beaten"
  /\ result.value = 17

\* C18: the ranking functions leave their arguments as they were: a call
\* changes neither the discipline, nor the user score, nor the length, the
\* order or the entries of benchmarkScores, so each call returns what the
\* function gives for the arguments of the first call, in whichever order
\* rank and beatenCount are called.
C18_RankingLeavesArguments ==
  [][/\ benchmarkScores' = benchmarkScores
     /\ userScore' = userScore
     /\ scoreType' = scoreType
     /\ result'.op = "rank" =>
          result'.value = computeRankAmongBenchmarkPlusUser(
                            scoreType, userScore, benchmarkScores)
     /\ result'.op = "beaten" =>
          result'.value = computeBenchmarkBeatenCount(
                            scoreType, userScore, benchmarkScores)]_vars

C18_Witness ==
  /\ result.op = "rank"
  /\ Len(benchmarkScores) = 2
  /\ compareScores(scoreType, benchmarkScores[1], benchmarkScores[2]) > 0
  /\ result.value = 2

(* ------------------------- claims on the points ------------------------ *)

\* C13: pointsFromRank(rank) is 41 - rank for an integer rank in 1..40 and
\* 0 for a rank below 1 or above 40, so it lies in 0..40, with 40 points
\* for rank 1, 1 for rank 40, 0 for rank 41 and 0 for rank 0.
C13_PointsScale ==
  result.op = "points" =>
    /\ rank \in 1..40 => result.value = 41 - rank
    /\ (rank < 1 \/ rank > 40) => result.value = 0
    /\ result.value \in 0..40
    /\ rank = 1 => result.value = 40
    /\ rank = 40 => result.value = 1
    /\ rank = 41 => result.value = 0
    /\ rank = 0 => result.value = 0

C13_Witness ==
  /\ result.op = "points"
  /\ rank = 40
  /\ result.value = 1

(* --------------------------- claims on the API -------------------------- *)

\* the bodies LogResultSchema.parse accepts
Parsed(body) == ~(body.userId = NONE /\ body.email = NONE)

\* the parsed bodies for an existing workout whose score the validator
\* refuses
InvalidScoreBodies ==
  {body \in PostBodies :
     /\ Parsed(body)
     /\ \E w \in Workouts :
          /\ w.id = body.workoutId
          /\ assertScoreMatchesType(w.scoreType, body.score) # "ok"}

C9_LatestValuesStored ==
  [][\A h \in Handlers :
       (req[h].pc = "upsertWrite" /\ req[h].existing # 0
          /\ req'[h].pc = "idle" /\ last'.status = 200) =>
         \E r \in userResults' :
           /\ r.id = req[h].existing
           /\ r.timeSeconds = Coalesce(req[h].body.score.timeSeconds, NULL)
           /\ r.reps = Coalesce(req[h].body.score.reps, NULL)
           /\ r.loadKg = Coalesce(req[h].body.score.loadKg, NULL)
           /\ r.tiebreakSecs = Coalesce(req[h].body.score.tiebreakSecs, NULL)]_vars

\* C10: in every reachable state the table UserResult holds at most one row
\* per (user, workout).
C10_OneRowPerUserWorkout ==
  \A r1, r2 \in userResults :
    (r1.userId = r2.userId /\ r1.workoutId = r2.workoutId) => r1 = r2

C10_Witness ==
  /\ userResults # {}
  /\ last.status = 200
  /\ last.updated

\* C20: a POST /results for an existing workout with a valid score and a
\* non-empty identifier (email) ends with status 200 and the result stored
\* under the user whose email is the normalized identifier, whatever userId
\* the request carries and whatever users exist.
C20_StoredUnderIdentifier ==
  [][\A h \in Handlers :
       (req[h].pc \in {"findUser", "createUser", "upsertFind", "upsertWrite"}
          /\ Identifier(req[h].body) \notin {NONE, ""}
          /\ req'[h].pc = "idle") =>
         /\ last'.status = 200
         /\ \E u \in users' :
              /\ u.email = Identifier(req[h].body)
              /\ u.id = req[h].user
              /\ \E r \in userResults' :
                   r.userId = u.id /\ r.workoutId = req[h].body.workoutId]_vars

(* -------------------------- claims on the reads ------------------------ *)

\* a read of the route has been answered and its reply not yet taken
Answered(h, route) == req[h].pc = "replied" /\ req[h].query.route = route

\* the in-scope workouts for which the user of the query has a result
Completed(query) ==
  {w \in InScope(query.scope) :
     FindUserResult(resolveUserIdOrThrow(query.lookup).userId, w.id) # {}}

\* C15: in a season summary completedWorkouts equals perWorkout.length and
\* the number of in-scope workouts with a stored result of the user; the
\* entries are those workouts, and a workout without a result has no entry.
C15_UnattemptedAbsent ==
  \A h \in Handlers :
    (Answered(h, "summary") /\ last.status = 200) =>
      /\ last.data.completedWorkouts = Len(last.data.perWorkout)
      /\ last.data.completedWorkouts = Cardinality(Completed(req[h].query))
      /\ {last.data.perWorkout[k].workoutId : k \in DOMAIN last.data.perWorkout}
           = {w.id : w \in Completed(req[h].query)}

C15_Witness ==
  /\ Answered(1, "summary")
  /\ last.status = 200
  /\ Cardinality(InScope(req[1].query.scope)) = 2
  /\ last.data.completedWorkouts = 1
  /\ Len(last.data.perWorkout) = 1

RECURSIVE SumOfPoints(_)
SumOfPoints(entries) ==
  IF entries = <<>> THEN 0
  ELSE entries[1].points + SumOfPoints(Tail(entries))

\* the place of a workout in the list the handler iterated
PlaceOf(workouts, id) == CHOOSE k \in DOMAIN workouts : workouts[k].id = id

\* C16: in a season summary totalPoints is the sum of the points of the
\* entries, each entry's points are pointsFromRank of its rank, and the
\* entries stand in the order in which the workouts were iterated.
C16_TotalAndOrder ==
  \A h \in Handlers :
    (Answered(h, "summary") /\ last.status = 200) =>
      LET entries == last.data.perWorkout
      IN /\ last.data.totalPoints = SumOfPoints(entries)
         /\ \A k \in DOMAIN entries :
              entries[k].points = pointsFromRank(entries[k].rank)
         /\ \A i, j \in DOMAIN entries :
              i < j => PlaceOf(req[h].query.workouts, entries[i].workoutId)
                         < PlaceOf(req[h].query.workouts, entries[j].workoutId)

C16_Witness ==
  /\ Answered(1, "summary")
  /\ last.status = 200
  /\ Len(last.data.perWorkout) = 2
  /\ req[1].query.workouts[1].id = "w2"
  /\ last.data.perWorkout[1].workoutId = "w2"
  /\ last.data.perWorkout[1].points # last.data.perWorkout[2].points
  /\ last.data.totalPoints
       = last.data.perWorkout[1].points + last.data.perWorkout[2].points

\* C17: whatever requests have been handled (POST /results, GET /compare,
\* /summary, /leaderboard, /benchmark), the tables BenchmarkResult and
\* BenchmarkAthlete hold the rows they held at the start.
C17_BenchmarkUnchanged ==
  /\ benchmarkResults = SeedBenchmarkResults
  /\ benchmarkAthletes = SeedAthletes

C17_Witness ==
  /\ Answered(1, "benchmark")
  /\ last.status = 200
  /\ Len(last.data) = 2
  /\ userResults # {}
  /\ Cardinality(users) = 2

\* C19: a GET /compare for a user and workout with a stored result returns
\* that stored score as userScore, and beatenCount, rank and points as the
\* ranking functions give them for the stored score and the benchmark rows
\* read: the result of the latest successful POST, never an earlier one.
C19_CompareIsFresh ==
  \A h \in Handlers :
    Answered(h, "compare") =>
      LET query == req[h].query
          stored == FindUserResult(resolveUserIdOrThrow(query.lookup).userId,
                                   query.workoutId)
          us == ScoreOf(CHOOSE r \in stored : TRUE)
          st == (CHOOSE w \in Workouts : w.id = query.workoutId).scoreType
      IN stored # {} =>
           /\ last.status = 200
           /\ query.benchmark \in FindBenchmark(query.workoutId)
           /\ last.data.userScore = us
           /\ last.data.benchmarkTotal = Len(query.benchmark)
           /\ last.data.beatenCount
                = computeBenchmarkBeatenCount(st, us, query.benchmark)
           /\ last.data.rank
                = computeRankAmongBenchmarkPlusUser(st, us, query.benchmark)
           /\ last.data.points = pointsFromRank(last.data.rank)

C19_Witness ==
  /\ Answered(1, "compare")
  /\ last.status = 200
  /\ issued = 2
  /\ Cardinality(userResults) = 1
  /\ last.data.userScore.timeSeconds = 2
  /\ last.data.userScore.reps = 1
  /\ last.data.rank = 3
  /\ last.data.beatenCount = 0
  /\ last.data.points = 38

\* C25: concurrent first submissions are not lost: a request for an
\* identifier that had no user when the request looked it up goes on to
\* store its result, whatever another request did in between; creating the
\* user does not fail, and exactly one User row holds the identifier then.
C25_FirstSubmissionsBothSucceed ==
  [][\A h \in Handlers :
       (/\ req[h].pc = "createUser"
        /\ req[h].body.userId = NONE
        /\ req'[h] # req[h])
       => /\ req'[h].pc = "upsertFind"
          /\ Cardinality({u \in users' :
                            u.email = Identifier(req[h].body)}) = 1]_vars

\* the identifier of a query, "" when it carries none
QueryIdentifier(lookup) ==
  normalizeIdentifier(IF lookup.email = NONE THEN "" ELSE lookup.email)

\* a query names no user: no userId, and an identifier that is empty or
\* that no user has
Unresolvable(lookup) ==
  /\ lookup.userId = NONE
  /\ \/ QueryIdentifier(lookup) = ""
     \/ FindUserByEmail(QueryIdentifier(lookup)) = {}

\* the user a resolvable query names
QueryUser(lookup) ==
  IF lookup.userId # NONE THEN lookup.userId
  ELSE (CHOOSE u \in users : u.email = QueryIdentifier(lookup)).id

\* C30: GET /compare reports its errors as replies and changes nothing: a
\* query that names no user gets 400; otherwise an unknown workout gets 404;
\* otherwise a user without a result for the workout gets 404; these replies
\* carry no rank result, and no reply of the route creates or modifies a
\* User or UserResult row.
C30_CompareErrors ==
  [][\A h \in Handlers :
       (/\ req[h].pc = "idle"
        /\ req'[h].pc = "replied"
        /\ req'[h].query.route = "compare")
       => LET query == req'[h].query
              noWorkout == \A w \in Workouts : w.id # query.workoutId
          IN /\ users' = users
             /\ userResults' = userResults
             /\ Unresolvable(query.lookup) =>
                  last'.status = 400 /\ last'.data = <<>>
             /\ (~Unresolvable(query.lookup) /\ noWorkout) =>
                  last'.status = 404 /\ last'.data = <<>>
             /\ (/\ ~Unresolvable(query.lookup)
                 /\ ~noWorkout
                 /\ \A r \in userResults :
                      ~(r.userId = QueryUser(query.lookup)
                        /\ r.workoutId = query.workoutId)) =>
                  last'.status = 404 /\ last'.data = <<>>]_vars

C30_Witness ==
  /\ Answered(1, "compare")
  /\ Unresolvable(req[1].query.lookup)
  /\ req[1].query.lookup.email = "b"
  /\ req[1].query.workoutId = "w1"
  /\ Cardinality(userResults) = 1
  /\ last.status = 400
  /\ last.error = "User not found for email/identifier"

\* the number a limit parameter stands for: 50 when it is absent
LimitOf(param) == IF param = UNDEFINED THEN 50 ELSE param

\* C29: the leaderboard lists the workout's user results best first:
\* consecutive entries compare <= 0, the ranks are 1..k, each user appears
\* at most once, and k = min(limit, number of results) for a limit in
\* 1..200, which is the clamped parameter when that is a number.
C29_LeaderboardPage ==
  \A h \in Handlers :
    (Answered(h, "leaderboard") /\ last.status = 200) =>
      LET query == req[h].query
          st == (CHOOSE w \in Workouts : w.id = query.workoutId).scoreType
          n == Cardinality({r \in userResults :
                              r.workoutId = query.workoutId})
          k == Len(last.data)
      IN /\ \A i \in 1..(k - 1) :
              compareScores(st, last.data[i].score, last.data[i + 1].score)
                <= 0
         /\ \A i \in 1..k : last.data[i].rank = i
         /\ \A i, j \in 1..k :
              last.data[i].userId = last.data[j].userId => i = j
         /\ \A i \in 1..k :
              \E r \in userResults :
                /\ r.workoutId = query.workoutId
                /\ r.userId = last.data[i].userId
                /\ ScoreOf(r) = last.data[i].score
         /\ \E limit \in 1..200 :
              /\ query.limit # NaN =>
                   limit = (IF LimitOf(query.limit) < 1 THEN 1
                            ELSE IF LimitOf(query.limit) > 200 THEN 200
                            ELSE LimitOf(query.limit))
              /\ k = (IF limit < n THEN limit ELSE n)

====
